---- MODULE Spec2Model ----
(***************************************************************************)
(* InstaLink: the upload / retrieve protocol between the identifier        *)
(* registry (the MongoDB collection of File documents) and the blob store  *)
(* (Cloudinary, or ./uploads on disk), as implemented by the four          *)
(* revisions of the server: src/backend.js, src/unnamed/part_000 (local    *)
(* disk), src/unnamed/part_001 (302 to a Cloudinary download URL, global   *)
(* error handler) and src/unnamed/part_002 (proxy stream through axios).   *)
(*                                                                         *)
(* Strings the code computes on (customName, shortId) are sequences of     *)
(* one-character strings.  An optional value (null / undefined in the      *)
(* code) is a set with at most one element: {} is null.                    *)
(***************************************************************************)
EXTENDS Naturals, Sequences, FiniteSets

VARIABLES revision, registry, store, up, get, clock, san

vars == <<revision, registry, store, up, get, clock, san>>

\* Number of POST /upload requests the model lets run concurrently.
MaxUploads == 2

\* Longest customName the sanitization is applied to in SanitizeSpec.
MaxNameLen == 3

\* nanoid(8): the length of a generated identifier.
NanoidLen == 8

Requests == 1..MaxUploads

Revisions == {"backend", "part_000", "part_001", "part_002"}

\* The revisions whose multer storage is CloudinaryStorage.
CloudRevisions == {"backend", "part_001", "part_002"}

(***************************************************************************)
(* Characters and the sanitization of customName.                          *)
(***************************************************************************)

\* The characters of the model that JavaScript's \s matches.
Whitespace == {" "}

\* The characters of the model inside [a-zA-Z0-9-_].
AllowedChars == {"a", "b", "0", "-", "_"}

IsSpace(c) == c \in Whitespace

IsAllowed(c) == c \in AllowedChars

RECURSIVE TrimLeft(_)
TrimLeft(s) ==
    IF s = <<>> THEN <<>>
    ELSE IF IsSpace(Head(s)) THEN TrimLeft(Tail(s))
    ELSE s

RECURSIVE TrimRight(_)
TrimRight(s) ==
    IF s = <<>> THEN <<>>
    ELSE IF IsSpace(s[Len(s)]) THEN TrimRight(SubSeq(s, 1, Len(s) - 1))
    ELSE s

\* String.prototype.trim()
Trim(s) == TrimRight(TrimLeft(s))

\* .replace(/\s+/g, '-'): every maximal run of whitespace becomes one hyphen.
RECURSIVE ReplaceSpaces(_)
ReplaceSpaces(s) ==
    IF s = <<>> THEN <<>>
    ELSE IF IsSpace(Head(s)) THEN <<"-">> \o ReplaceSpaces(TrimLeft(Tail(s)))
    ELSE <<Head(s)>> \o ReplaceSpaces(Tail(s))

\* The replacement without the g flag: only the first match is removed.
RECURSIVE StripInvalidFirst(_)
StripInvalidFirst(s) ==
    IF s = <<>> THEN <<>>
    ELSE IF IsAllowed(Head(s)) THEN <<Head(s)>> \o StripInvalidFirst(Tail(s))
    ELSE Tail(s)

\* .replace(/[^a-zA-Z0-9-_]/g, '')
StripInvalid(s) == SelectSeq(s, IsAllowed)

\* The name only trimmed.
SanitizeTrimOnly(customName) == Trim(customName)

\* customName.trim().replace(/\s+/g, '-').replace(/[^a-zA-Z0-9-_]/g, '')
Sanitize(customName) == StripInvalid(ReplaceSpaces(Trim(customName)))

(***************************************************************************)
(* Inputs of the requests.                                                 *)
(***************************************************************************)

\* The identifiers nanoid(8) returns in the model.
GeneratedIds == {[i \in 1..NanoidLen |-> c] : c \in {"a", "b"}}

\* The customName fields clients send: a name that needs sanitizing, its
\* sanitized form, a name that sanitizes to the empty string, and a name
\* equal to an identifier nanoid(8) can return.
CustomNames ==
    {<<"a", " ", "b">>, <<"a", "-", "b">>, <<"!">>, [i \in 1..NanoidLen |-> "a"]}

\* req.body: the customName field is optional.
Bodies ==
    {[hasName |-> FALSE, customName |-> <<>>]}
        \cup {[hasName |-> TRUE, customName |-> n] : n \in CustomNames}

FileF == [originalname |-> "F.pdf", mimetype |-> "application/pdf", bytes |-> "F"]

FileG == [originalname |-> "G.png", mimetype |-> "image/png", bytes |-> "G"]

\* The file parts a multipart request carries: none, one, or several.
FileLists == {<<>>, <<FileF>>, <<FileG, FileF>>}

\* The :shortId parameters clients ask for.
LookupIds ==
    ({Sanitize(n) : n \in CustomNames} \ {<<>>}) \cup GeneratedIds \cup {<<"b">>}

(***************************************************************************)
(* The blob store.                                                         *)
(***************************************************************************)

\* The identifier the blob store assigns to the i-th file of request r
\* (file.filename): unique per stored file.
BlobId(r, i) == <<r, i>>

\* file.path: the URL (or local path) of a stored blob.
FileUrl(b) == <<"blob">> \o b

\* The blob a URL (or path) points to.
BlobOfUrl(u) == Tail(u)

StoredIds == {b.id : b \in store}

BytesAt(id) == {b.bytes : b \in {x \in store : x.id = id}}

\* req.files as multer builds it for request r in state u of the request:
\* one entry per file stored so far.
ReqFiles(r, u) ==
    [i \in 1..u.stored |->
        [filename |-> BlobId(r, i),
         path |-> FileUrl(BlobId(r, i)),
         originalname |-> u.files[i].originalname,
         mimetype |-> u.files[i].mimetype]]

(***************************************************************************)
(* The registry.                                                           *)
(***************************************************************************)

\* A query that ignores its filter: the first document of the collection.
FindOneAny(reg, id) == IF reg = {} THEN {} ELSE {CHOOSE doc \in reg : TRUE}

\* File.findOne({ shortId: id })
FindOne(reg, id) == {doc \in reg : doc.shortId = id}

\* A collection without the unique index.
DuplicateKeyOff(reg, id) == FALSE

\* unique: true on shortId: an insert of id is rejected with a duplicate-key
\* error when a document with that shortId exists.
DuplicateKey(reg, id) == \E doc \in reg : doc.shortId = id

\* An upsert: the document replaces the one with its shortId.
InsertUpsert(reg, doc) == {d \in reg : d.shortId # doc.shortId} \cup {doc}

\* The collection after newFile.save(): the document is inserted unless the
\* unique index rejects it.
Insert(reg, doc) == IF DuplicateKey(reg, doc.shortId) THEN reg ELSE reg \cup {doc}

\* new File({...}): createdAt defaults to Date.now.
NewFile(rev, shortId, file, now) ==
    [shortId |-> shortId,
     originalName |-> file.originalname,
     fileUrl |-> file.path,
     mimeType |-> file.mimetype,
     cloudinaryId |-> IF rev \in CloudRevisions THEN file.filename ELSE <<>>,
     createdAt |-> now]

IdleUpload ==
    [pc |-> "idle", files |-> <<>>, body |-> [hasName |-> FALSE, customName |-> <<>>],
     stored |-> 0, shortId |-> <<>>, newFile |-> {}, saveError |-> "",
     status |-> 0, error |-> "", link |-> <<>>,
     existed |-> FALSE, fault |-> FALSE, responses |-> 0]

IdleGet ==
    [pc |-> "idle", shortId |-> <<>>, file |-> {}, status |-> 0,
     target |-> {}, bytes |-> {}, headersSent |-> FALSE, fault |-> FALSE,
     upstream |-> "", after |-> {}]

\* san holds a string and its sanitizations in SanitizeSpec; the server
\* leaves it alone.
IdleSan == [raw |-> <<>>, once |-> <<>>, twice |-> <<>>, pass |-> 0]

Init ==
    /\ revision \in Revisions
    /\ registry = {}
    /\ store = {}
    /\ up = [r \in Requests |-> IdleUpload]
    /\ get = IdleGet
    /\ clock = 0
    /\ san = IdleSan

(***************************************************************************)
(* POST /upload                                                            *)
(***************************************************************************)

NoFileMsg == "No file was uploaded."

InvalidNameMsg == "Custom name contains invalid characters."

NameTakenMsg == "This custom link name is already taken."

ServerErrorMsg == "Server error while creating link."

\* if (customName): undefined and the empty string are falsy.
Truthy(body) == body.hasName /\ body.customName # <<>>

\* res.status(code).json({ error: msg }) sends one response; the handler
\* returns (or has nothing left to run) after it.
Respond(r, u, code, msg) ==
    up' = [up EXCEPT ![r] =
             [u EXCEPT !.pc = "done", !.status = code, !.error = msg,
                       !.responses = @ + 1]]

\* A catch block that logs the error and sends nothing.
CatchErrorSilent(r, u) == up' = [up EXCEPT ![r] = [u EXCEPT !.pc = "done"]]

\* The catch block (in part_001: next(error) and the global error handler):
\* every rejected await of the handler is answered 500.
CatchError(r, u) == Respond(r, u, 500, ServerErrorMsg)

\* new File({ shortId, ... }) for the first file of the request; the handler
\* then awaits newFile.save().
Construct(r, u, shortId) ==
    /\ up' = [up EXCEPT ![r] =
                [u EXCEPT !.pc = "save",
                          !.shortId = shortId,
                          !.newFile = {NewFile(revision, shortId, ReqFiles(r, u)[1], clock)}]]
    /\ clock' = clock + 1

\* The handler from its entry to its first await, run when multer has
\* stored every file of the request (upload.any() then calls the handler).
Handler(r, u) ==
    LET file == IF u.stored > 0 THEN {ReqFiles(r, u)[1]} ELSE {}
    IN  IF file = {}
        THEN Respond(r, u, 400, NoFileMsg) /\ UNCHANGED clock
        ELSE IF Truthy(u.body)
        THEN LET sanitizedName == Sanitize(u.body.customName)
             IN  IF sanitizedName = <<>>
                 THEN Respond(r, u, 400, InvalidNameMsg) /\ UNCHANGED clock
                 ELSE /\ up' = [up EXCEPT ![r] =
                                  [u EXCEPT !.pc = "findOne", !.shortId = sanitizedName]]
                      /\ UNCHANGED clock
        ELSE \E id \in GeneratedIds : Construct(r, u, id)

\* A request arrives with its file parts and its body.
Arrive(r) ==
    /\ up[r].pc = "idle"
    /\ \E fl \in FileLists, b \in Bodies :
          LET u == [up[r] EXCEPT !.files = fl, !.body = b]
          IN  IF fl = <<>>
              THEN Handler(r, u)
              ELSE up' = [up EXCEPT ![r] = [u EXCEPT !.pc = "multer"]] /\ UNCHANGED clock
    /\ UNCHANGED <<revision, registry, store, get, san>>

\* upload.any(): multer hands the next file part to the storage engine,
\* which writes it to the blob store; after the last one the handler runs.
MulterStore(r) ==
    /\ up[r].pc = "multer"
    /\ LET i == up[r].stored + 1
           u == [up[r] EXCEPT !.stored = i]
       IN  /\ store' = store \cup {[id |-> BlobId(r, i), bytes |-> up[r].files[i].bytes]}
           /\ IF i = Len(up[r].files)
              THEN Handler(r, u)
              ELSE up' = [up EXCEPT ![r] = u] /\ UNCHANGED clock
    /\ UNCHANGED <<revision, registry, get, san>>

\* The storage engine fails on a file part: multer removes the parts of this
\* request it has stored and passes the error on; the handler does not run
\* and the error handler answers 500.
MulterFault(r) ==
    /\ up[r].pc = "multer"
    /\ store' = {b \in store : b.id \notin {BlobId(r, i) : i \in 1..up[r].stored}}
    /\ up' = [up EXCEPT ![r] =
                [@ EXCEPT !.pc = "done", !.status = 500, !.error = ServerErrorMsg,
                          !.stored = 0, !.fault = TRUE, !.responses = @ + 1]]
    /\ UNCHANGED <<revision, registry, get, clock, san>>

\* await File.findOne({ shortId: sanitizedName }) and the branch on it.
FindExisting(r) ==
    /\ up[r].pc = "findOne"
    /\ LET existingFile == FindOne(registry, up[r].shortId)
       IN  IF existingFile # {}
           THEN IF revision \in CloudRevisions
                THEN /\ up' = [up EXCEPT ![r] = [@ EXCEPT !.pc = "destroy", !.existed = TRUE]]
                     /\ UNCHANGED clock
                ELSE /\ Respond(r, [up[r] EXCEPT !.existed = TRUE], 409, NameTakenMsg)
                     /\ UNCHANGED clock
           ELSE Construct(r, up[r], up[r].shortId)
    /\ UNCHANGED <<revision, registry, store, get, san>>

\* File.findOne rejects (the database is unreachable).
FindFault(r) ==
    /\ up[r].pc = "findOne"
    /\ CatchError(r, [up[r] EXCEPT !.fault = TRUE])
    /\ UNCHANGED <<revision, registry, store, get, clock, san>>

\* destroy called on the blob of the document that holds the name.
DestroyTargetExisting(r) ==
    (CHOOSE d \in FindOne(registry, up[r].shortId) : TRUE).cloudinaryId

\* The argument of cloudinary.uploader.destroy: file.filename.
DestroyTarget(r) == ReqFiles(r, up[r])[1].filename

\* await cloudinary.uploader.destroy(file.filename), then 409.
Destroy(r) ==
    /\ up[r].pc = "destroy"
    /\ store' = {b \in store : b.id # DestroyTarget(r)}
    /\ Respond(r, up[r], 409, NameTakenMsg)
    /\ UNCHANGED <<revision, registry, get, clock, san>>

\* cloudinary.uploader.destroy rejects: the blob stays, the catch block runs.
DestroyFault(r) ==
    /\ up[r].pc = "destroy"
    /\ CatchError(r, [up[r] EXCEPT !.fault = TRUE])
    /\ UNCHANGED <<revision, registry, store, get, clock, san>>

\* A save that draws another identifier and tries again when the unique
\* index rejects a generated one.
SaveRetry(r) ==
    /\ up[r].pc = "save"
    /\ LET doc == CHOOSE d \in up[r].newFile : TRUE
       IN  IF DuplicateKey(registry, doc.shortId) /\ ~Truthy(up[r].body)
           THEN /\ \E id \in GeneratedIds \ {doc.shortId} :
                     up' = [up EXCEPT ![r] =
                              [@ EXCEPT !.shortId = id,
                                        !.newFile = {[doc EXCEPT !.shortId = id]}]]
                /\ registry' = registry
           ELSE /\ registry' = Insert(registry, doc)
                /\ up' = [up EXCEPT ![r] =
                            [@ EXCEPT !.pc = "saved",
                                      !.saveError = IF DuplicateKey(registry, doc.shortId)
                                                    THEN "E11000" ELSE ""]]
    /\ UNCHANGED <<revision, store, get, clock, san>>

\* await newFile.save(): the insert, rejected by the unique index (E11000)
\* when the shortId is already there.
Save(r) ==
    /\ up[r].pc = "save"
    /\ LET doc == CHOOSE d \in up[r].newFile : TRUE
       IN  /\ registry' = Insert(registry, doc)
           /\ up' = [up EXCEPT ![r] =
                       [@ EXCEPT !.pc = "saved",
                                 !.saveError = IF DuplicateKey(registry, doc.shortId)
                                               THEN "E11000" ELSE ""]]
    /\ UNCHANGED <<revision, store, get, clock, san>>

\* newFile.save() rejects for another reason (the database is unreachable).
SaveFault(r) ==
    /\ up[r].pc = "save"
    /\ up' = [up EXCEPT ![r] = [@ EXCEPT !.pc = "saved", !.saveError = "fault", !.fault = TRUE]]
    /\ UNCHANGED <<revision, registry, store, get, clock, san>>

\* The response sent without regard to the outcome of save (save not
\* awaited).
AfterSaveIgnoreError(r) ==
    /\ up[r].pc = "saved"
    /\ up' = [up EXCEPT ![r] =
                [@ EXCEPT !.pc = "done", !.status = 200, !.responses = @ + 1,
                          !.link = (CHOOSE d \in up[r].newFile : TRUE).shortId]]
    /\ UNCHANGED <<revision, registry, store, get, clock, san>>

\* The continuation of await newFile.save(): the link and 200, or the catch
\* block.
AfterSave(r) ==
    /\ up[r].pc = "saved"
    /\ IF up[r].saveError = ""
       THEN up' = [up EXCEPT ![r] =
                     [@ EXCEPT !.pc = "done", !.status = 200, !.responses = @ + 1,
                               !.link = (CHOOSE d \in up[r].newFile : TRUE).shortId]]
       ELSE CatchError(r, up[r])
    /\ UNCHANGED <<revision, registry, store, get, clock, san>>

(***************************************************************************)
(* GET /file/:shortId                                                      *)
(***************************************************************************)

\* The uploads already answered 200 with the link /file/<id>.
AnsweredWith(id) == {r \in Requests : up[r].status = 200 /\ up[r].link = id}

\* res.status(code).send(...) ends the request.
GetRespond(g, code) == get' = [g EXCEPT !.pc = "done", !.status = code]

\* What the handler does with the document it found, by revision.
Serve(g, file) ==
    CASE revision = "backend" ->
            \* res.redirect(file.fileUrl)
            get' = [g EXCEPT !.pc = "done", !.status = 302,
                             !.target = {BlobOfUrl(file.fileUrl)}]
      [] revision = "part_001" ->
            \* res.redirect(302, cloudinary.url(file.cloudinaryId, ...))
            get' = [g EXCEPT !.pc = "done", !.status = 302,
                             !.target = {file.cloudinaryId}]
      [] revision = "part_000" ->
            \* res.sendFile(path.resolve(file.filePath)): a missing file is 404
            LET b == BlobOfUrl(file.fileUrl)
            IN  IF b \in StoredIds
                THEN get' = [g EXCEPT !.pc = "done", !.status = 200,
                                      !.target = {b}, !.bytes = BytesAt(b),
                                      !.headersSent = TRUE]
                ELSE GetRespond(g, 404)
      [] revision = "part_002" ->
            \* await axios({ url: file.fileUrl, responseType: 'stream', timeout })
            get' = [g EXCEPT !.pc = "fetch"]

\* The handler without its if (!file) check: reading file.fileUrl of null
\* throws and the catch block answers 500.
GetFileNoNullCheck(id) ==
    /\ get.pc = "idle"
    /\ LET g == [get EXCEPT !.shortId = id, !.after = AnsweredWith(id)]
           file == FindOne(registry, id)
       IN  IF file = {}
           THEN GetRespond(g, 500)
           ELSE Serve([g EXCEPT !.file = file], CHOOSE d \in file : TRUE)
    /\ UNCHANGED <<revision, registry, store, up, clock, san>>

\* A handler that removes the document it has served (a one-time link).
GetFileOnce(id) ==
    /\ get.pc = "idle"
    /\ LET g == [get EXCEPT !.shortId = id, !.after = AnsweredWith(id)]
           file == FindOne(registry, id)
       IN  /\ IF file = {}
              THEN GetRespond(g, 404)
              ELSE Serve([g EXCEPT !.file = file], CHOOSE d \in file : TRUE)
           /\ registry' = registry \ file
    /\ UNCHANGED <<revision, store, up, clock, san>>

\* A request for id arrives; await File.findOne and the branch on it.
GetFile(id) ==
    /\ get.pc = "idle"
    /\ LET g == [get EXCEPT !.shortId = id, !.after = AnsweredWith(id)]
           file == FindOne(registry, id)
       IN  IF file = {}
           THEN GetRespond(g, 404)
           ELSE Serve([g EXCEPT !.file = file], CHOOSE d \in file : TRUE)
    /\ UNCHANGED <<revision, registry, store, up, clock, san>>

\* File.findOne rejects: the catch block (part_001: the global error
\* handler) answers 500.
GetFindFault(id) ==
    /\ get.pc = "idle"
    /\ GetRespond([get EXCEPT !.shortId = id, !.after = AnsweredWith(id),
                              !.fault = TRUE], 500)
    /\ UNCHANGED <<revision, registry, store, up, clock, san>>

\* The upstream answers the axios request: the body stream of the blob, or
\* 404 when the blob is not in the store.
AxiosResponse ==
    /\ get.pc = "fetch"
    /\ LET file == CHOOSE d \in get.file : TRUE
           b == BlobOfUrl(file.fileUrl)
       IN  IF b \in StoredIds
           THEN get' = [get EXCEPT !.pc = "stream", !.target = {b}, !.upstream = "ok"]
           ELSE GetRespond([get EXCEPT !.upstream = "notfound"], 404)
    /\ UNCHANGED <<revision, registry, store, up, clock, san>>

\* The timeout handled like any other error of the request.
AxiosTimeoutUnmapped ==
    /\ get.pc = "fetch"
    /\ GetRespond([get EXCEPT !.fault = TRUE, !.upstream = "timeout"], 500)
    /\ UNCHANGED <<revision, registry, store, up, clock, san>>

\* The axios request exceeds its timeout: error.code === 'ECONNABORTED'.
AxiosTimeout ==
    /\ get.pc = "fetch"
    /\ GetRespond([get EXCEPT !.fault = TRUE, !.upstream = "timeout"], 504)
    /\ UNCHANGED <<revision, registry, store, up, clock, san>>

\* The axios request fails in another way.
AxiosError ==
    /\ get.pc = "fetch"
    /\ GetRespond([get EXCEPT !.fault = TRUE, !.upstream = "error"], 500)
    /\ UNCHANGED <<revision, registry, store, up, clock, san>>

\* response.data.pipe(res): a chunk of the blob is written to the response,
\* which sends the headers with status 200.
StreamChunk ==
    /\ get.pc = "stream"
    /\ ~get.headersSent
    /\ get' = [get EXCEPT !.headersSent = TRUE, !.status = 200,
                          !.bytes = UNION {BytesAt(b) : b \in get.target}]
    /\ UNCHANGED <<revision, registry, store, up, clock, san>>

\* The body stream ends: pipe ends the response.
StreamEnd ==
    /\ get.pc = "stream"
    /\ get.headersSent
    /\ get' = [get EXCEPT !.pc = "done"]
    /\ UNCHANGED <<revision, registry, store, up, clock, san>>

\* response.data.on('error'): 500 when no header was sent yet; otherwise
\* nothing is sent and the response is not ended.
StreamError ==
    /\ get.pc = "stream"
    /\ IF ~get.headersSent
       THEN GetRespond([get EXCEPT !.fault = TRUE], 500)
       ELSE get' = [get EXCEPT !.pc = "open", !.fault = TRUE]
    /\ UNCHANGED <<revision, registry, store, up, clock, san>>

\* The client sends its next request.
GetAgain ==
    /\ get.pc \in {"done", "open"}
    /\ get' = IdleGet
    /\ UNCHANGED <<revision, registry, store, up, clock, san>>

Next ==
    \/ \E r \in Requests : Arrive(r)
    \/ \E r \in Requests : MulterStore(r)
    \/ \E r \in Requests : MulterFault(r)
    \/ \E r \in Requests : FindExisting(r)
    \/ \E r \in Requests : FindFault(r)
    \/ \E r \in Requests : Destroy(r)
    \/ \E r \in Requests : DestroyFault(r)
    \/ \E r \in Requests : Save(r)
    \/ \E r \in Requests : SaveFault(r)
    \/ \E r \in Requests : AfterSave(r)
    \/ \E id \in LookupIds : GetFile(id)
    \/ \E id \in LookupIds : GetFindFault(id)
    \/ AxiosResponse
    \/ AxiosTimeout
    \/ AxiosError
    \/ StreamChunk
    \/ StreamEnd
    \/ StreamError
    \/ GetAgain

Spec == Init /\ [][Next]_vars

\* The steps of the handler of request r after its first await: each is the
\* continuation the event loop runs when the awaited call has settled.
UploadStep(r) ==
    \/ FindExisting(r)
    \/ FindFault(r)
    \/ Destroy(r)
    \/ DestroyFault(r)
    \/ Save(r)
    \/ SaveFault(r)
    \/ AfterSave(r)

\* Every awaited call of the upload handler settles (it is fulfilled or it
\* rejects) and its continuation is then run.
UploadFair == \A r \in Requests : WF_vars(UploadStep(r))

\* The uploads alone, with that fairness.
UploadNext ==
    \/ \E r \in Requests : Arrive(r)
    \/ \E r \in Requests : MulterStore(r)
    \/ \E r \in Requests : MulterFault(r)
    \/ \E r \in Requests : UploadStep(r)

UploadSpec == Init /\ [][UploadNext]_vars /\ UploadFair

(***************************************************************************)
(* The proxy-stream revision with a storage provider at which the blob of  *)
(* a document can disappear without the server taking part (the owner of   *)
(* the account deletes it): the case the handler's 404 branch is for.      *)
(***************************************************************************)

\* The blob of a document is removed at the provider.
BlobLost ==
    /\ \E doc \in registry :
          /\ BlobOfUrl(doc.fileUrl) \in StoredIds
          /\ store' = {b \in store : b.id # BlobOfUrl(doc.fileUrl)}
    /\ UNCHANGED <<revision, registry, up, get, clock, san>>

ProxyInit == Init /\ revision = "part_002"

ProxyNext == Next \/ BlobLost

ProxySpec == ProxyInit /\ [][ProxyNext]_vars

(***************************************************************************)
(* The sanitization alone, applied to every customName of up to MaxNameLen *)
(* characters: letters, digits, '-', '_', whitespace and another symbol.   *)
(***************************************************************************)

NameChars == {"a", "0", "-", "_", " ", "!"}

Names == UNION {[1..n -> NameChars] : n \in 0..MaxNameLen}

SanitizeInit ==
    /\ revision = "backend"
    /\ registry = {}
    /\ store = {}
    /\ up = [r \in Requests |-> IdleUpload]
    /\ get = IdleGet
    /\ clock = 0
    /\ san \in {[IdleSan EXCEPT !.raw = x] : x \in Names}

\* const sanitizedName = customName.trim().replace(...).replace(...)
SanitizeFirst ==
    /\ san.pass = 0
    /\ san' = [san EXCEPT !.once = Sanitize(san.raw), !.pass = 1]
    /\ UNCHANGED <<revision, registry, store, up, get, clock>>

\* The sanitized name sent again as customName.
SanitizeAgain ==
    /\ san.pass = 1
    /\ san' = [san EXCEPT !.twice = Sanitize(san.once), !.pass = 2]
    /\ UNCHANGED <<revision, registry, store, up, get, clock>>

SanitizeNext == SanitizeFirst \/ SanitizeAgain

SanitizeSpec == SanitizeInit /\ [][SanitizeNext]_vars

(***************************************************************************)
(* Properties.                                                             *)
(***************************************************************************)

\* The blobs request r handed to the blob store.
BlobsOf(r) == {BlobId(r, i) : i \in 1..Len(up[r].files)}

\* Request r carried a file and the customName c.
Named(r, c) ==
    /\ up[r].files # <<>>
    /\ up[r].body.hasName
    /\ up[r].body.customName = c

\* C1: when N >= 2 uploads that all carry a file and the same customName
\* (whose sanitized form no other upload put into the registry) have all
\* completed without a fault of the database or the blob store, exactly one
\* of them was answered 200 and every other one 409.
C1_OneWinnerOthers409 ==
    \A c \in CustomNames :
        LET S == {r \in Requests : Named(r, c)}
        IN  (/\ Cardinality(S) >= 2
             /\ Sanitize(c) # <<>>
             /\ \A r \in S : up[r].pc = "done" /\ ~up[r].fault
             /\ \A doc \in FindOne(registry, Sanitize(c)) :
                    \E r \in S : doc \in up[r].newFile)
            => /\ Cardinality({r \in S : up[r].status = 200}) = 1
               /\ \A r \in S : up[r].status \in {200, 409}

\* C2: no two documents of the registry have the same shortId.
C2_UniqueShortId ==
    \A d1 \in registry, d2 \in registry : d1.shortId = d2.shortId => d1 = d2

\* Two uploads of the same custom name both passed the findOne pre-check;
\* one was saved and answered 200, the save of the other was rejected.
C2_Witness ==
    \E r1 \in Requests, r2 \in Requests :
        /\ r1 # r2
        /\ Truthy(up[r1].body) /\ Truthy(up[r2].body)
        /\ up[r1].shortId = up[r2].shortId
        /\ up[r1].status = 200
        /\ up[r1].newFile \subseteq registry
        /\ up[r2].saveError = "E11000"

\* C3: an upload whose sanitized customName was found in the registry and
\* that suffered no fault is answered 409 name-taken, and once it has
\* completed none of the blobs it wrote is in the blob store.
C3_NameTakenLeavesNoBlob ==
    \A r \in Requests :
        (up[r].pc = "done" /\ up[r].existed /\ ~up[r].fault)
            => /\ up[r].status = 409
               /\ up[r].error = NameTakenMsg
               /\ BlobsOf(r) \cap StoredIds = {}

\* C4: an upload whose save was rejected by the unique index is answered
\* 409 name-taken and none of its blobs remains in the blob store.
C4_RejectedSaveCleansUp ==
    \A r \in Requests :
        (up[r].pc = "done" /\ up[r].saveError = "E11000")
            => /\ up[r].status = 409
               /\ BlobsOf(r) \cap StoredIds = {}

\* C5: an upload with a file and a customName that sanitizes to the empty
\* string, completed without a fault, is answered 400 invalid-name, has
\* written no blob and has added no document.
C5_InvalidNameWritesNothing ==
    \A r \in Requests :
        (/\ up[r].pc = "done"
         /\ ~up[r].fault
         /\ up[r].files # <<>>
         /\ up[r].body.hasName
         /\ Sanitize(up[r].body.customName) = <<>>)
            => /\ up[r].status = 400
               /\ up[r].error = InvalidNameMsg
               /\ up[r].stored = 0
               /\ BlobsOf(r) \cap StoredIds = {}
               /\ up[r].newFile = {}

\* C6: an upload that found its name taken and whose cleanup delete then
\* failed (the only fault that can follow a successful findOne that found a
\* document) is still answered 409 name-taken.
C6_DestroyFailureStill409 ==
    \A r \in Requests :
        (up[r].pc = "done" /\ up[r].existed /\ up[r].fault)
            => up[r].status = 409

\* C7: every document of the registry was constructed by an upload from the
\* first blob that upload stored, and that blob is in the blob store.
C7_RecordsReferenceStoredBlobs ==
    \A doc \in registry :
        /\ BlobOfUrl(doc.fileUrl) \in StoredIds
        /\ \E r \in Requests :
              /\ doc \in up[r].newFile
              /\ up[r].stored >= 1
              /\ BlobOfUrl(doc.fileUrl) = BlobId(r, 1)

\* A document is committed and another upload of its name has run its
\* cleanup delete: the blob of that upload is gone, the document's blob is
\* still there.
C7_Witness ==
    \E r1 \in Requests, r2 \in Requests :
        /\ up[r1].status = 200
        /\ up[r1].newFile \subseteq registry
        /\ revision \in CloudRevisions
        /\ up[r2].status = 409
        /\ up[r2].shortId = up[r1].shortId
        /\ BlobId(r2, 1) \notin StoredIds
        /\ BlobId(r1, 1) \in StoredIds

\* C8: for an upload r of file F with customName c that was answered 200
\* before a GET of its link: the link is /file/sanitize(c); the GET is never
\* answered 404; the document it finds is the one r created; a redirect
\* goes to r's blob, which holds F's bytes; streamed bytes are F's bytes;
\* and unless the lookup or the upstream fetch fails the GET ends with the
\* redirect or the bytes.
C8_RoundTrip ==
    \A r \in get.after :
        Truthy(up[r].body) =>
            /\ up[r].link = Sanitize(up[r].body.customName)
            /\ get.status # 404
            /\ get.file \subseteq up[r].newFile
            /\ (get.pc = "done" /\ ~get.fault) => get.status \in {200, 302}
            /\ get.status = 302 =>
                  /\ get.target = {BlobId(r, 1)}
                  /\ BytesAt(BlobId(r, 1)) = {up[r].files[1].bytes}
            /\ get.status = 200 =>
                  /\ get.target = {BlobId(r, 1)}
                  /\ get.bytes = {up[r].files[1].bytes}

\* A GET of a custom link served its upload's file after another upload
\* had claimed the same name and completed.
C8_Witness ==
    /\ get.pc = "done"
    /\ get.status \in {200, 302}
    /\ \E r \in get.after, r2 \in Requests :
          /\ r2 # r
          /\ Truthy(up[r].body)
          /\ up[r].body.customName # Sanitize(up[r].body.customName)
          /\ up[r2].pc = "done"
          /\ up[r2].shortId = get.shortId
          /\ up[r2].files[1].bytes # up[r].files[1].bytes

\* C9 as stated: a completed GET of a shortId that is the key of no document
\* was answered 404.
C9_UnknownIdAlways404 ==
    (get.pc = "done" /\ FindOne(registry, get.shortId) = {}) => get.status = 404

\* C9 as amended: a GET of a shortId that is the key of no document is
\* answered 404, or 500 when the registry lookup itself failed; it never
\* redirects and never sends bytes.
C9_UnknownId404Or500OnFault ==
    (get.pc # "idle" /\ FindOne(registry, get.shortId) = {})
        => /\ get.pc = "done"
           /\ get.status = 404 \/ (get.status = 500 /\ get.fault)
           /\ get.target = {}
           /\ get.bytes = {}
           /\ ~get.headersSent

\* A GET of an unknown shortId was answered 404 while the registry held
\* two documents.
C9_Witness ==
    /\ get.pc = "done"
    /\ get.status = 404
    /\ FindOne(registry, get.shortId) = {}
    /\ Cardinality(registry) >= 2

\* C10: every step keeps every document of the registry, with all its
\* fields.
C10_AppendOnly == [][registry \subseteq registry']_vars

\* A document is in the registry, a later upload that claimed its shortId
\* again has completed, and a retrieval of it has completed.
C10_Witness ==
    \E r1 \in Requests, r2 \in Requests :
        /\ r1 # r2
        /\ up[r1].status = 200
        /\ up[r1].newFile \subseteq registry
        /\ up[r2].pc = "done"
        /\ up[r2].status # 200
        /\ up[r2].shortId = up[r1].shortId
        /\ get.pc = "done"
        /\ get.shortId = up[r1].shortId

\* C11: an upload that completed without a fault has written at most one
\* blob, exactly one when it carried a file and its name passed
\* sanitization (also when it carried several files), and a blob of it has
\* been deleted only when its identifier was found taken.
C11_OneWriteOneCommitDeleteOnConflict ==
    \A r \in Requests :
        (up[r].pc = "done" /\ ~up[r].fault)
            => /\ up[r].stored <= 1
               /\ (/\ up[r].files # <<>>
                   /\ ~(up[r].body.hasName /\ Sanitize(up[r].body.customName) = <<>>))
                      => up[r].stored = 1
               /\ (\E i \in 1..up[r].stored : BlobId(r, i) \notin StoredIds)
                      => up[r].existed

\* C12: sanitizing a sanitized name returns it unchanged.
C12_SanitizeIdempotent == san.pass = 2 => san.twice = san.once

\* A name of full length with whitespace and an invalid character has been
\* sanitized twice; its sanitized form is not empty and differs from it.
C12_Witness ==
    /\ san.pass = 2
    /\ Len(san.raw) = MaxNameLen
    /\ \E i \in 1..Len(san.raw) : san.raw[i] = " "
    /\ \E i \in 1..Len(san.raw) : san.raw[i] = "!"
    /\ san.once # <<>>
    /\ san.once # san.raw

\* C13: in the proxy-stream handler, for a shortId that has a document: an
\* upstream timeout is answered 504, an upstream not-found 404, any other
\* failure of the fetch, or of the stream before a header is sent, 500, and
\* 200 with bytes is sent only after the upstream fetch succeeded.
C13_ProxyErrorMapping ==
    (revision = "part_002" /\ get.file # {})
        => /\ get.upstream = "timeout" => (get.pc = "done" /\ get.status = 504)
           /\ get.upstream = "notfound" => (get.pc = "done" /\ get.status = 404)
           /\ get.upstream = "error" => (get.pc = "done" /\ get.status = 500)
           /\ (get.upstream = "ok" /\ get.fault /\ ~get.headersSent)
                 => (get.pc = "done" /\ get.status = 500)
           /\ (get.status = 200 \/ get.bytes # {} \/ get.headersSent)
                 => get.upstream = "ok"

\* The blob of a document is gone at the provider and the GET of its
\* shortId was answered 404.
C13_Witness ==
    /\ revision = "part_002"
    /\ get.pc = "done"
    /\ get.file # {}
    /\ get.file \subseteq registry
    /\ get.upstream = "notfound"
    /\ get.status = 404

\* C14: in the revisions that store on Cloudinary, a GET that completed
\* without a fault was answered with a 302 redirect to the blob of the
\* document when its lookup found one for the shortId, and with 404 when
\* it found none.
C14_FoundRedirectsElse404 ==
    (revision \in CloudRevisions /\ get.pc = "done" /\ ~get.fault)
        => IF get.file # {}
           THEN /\ get.status = 302
                /\ get.target = {d.cloudinaryId : d \in get.file}
           ELSE get.status = 404

\* C15: every shortId in the registry is non-empty and made of characters
\* of [A-Za-z0-9_-] only, and the shortId of a document created by an
\* upload without customName has length 8.
C15_ShortIdUrlSafe ==
    /\ \A doc \in registry :
          /\ doc.shortId # <<>>
          /\ \A i \in 1..Len(doc.shortId) : doc.shortId[i] \in AllowedChars
    /\ \A r \in Requests :
          (~Truthy(up[r].body) /\ up[r].newFile # {})
              => \A doc \in up[r].newFile : Len(doc.shortId) = NanoidLen

\* The registry holds a document under a generated identifier and one under
\* a custom name that sanitization had to change.
C15_Witness ==
    \E r1 \in Requests, r2 \in Requests :
        /\ ~Truthy(up[r1].body)
        /\ up[r1].newFile # {}
        /\ up[r1].newFile \subseteq registry
        /\ Truthy(up[r2].body)
        /\ up[r2].newFile # {}
        /\ up[r2].newFile \subseteq registry
        /\ up[r2].shortId # up[r2].body.customName

\* C16: within one upload the blob is written before the document is
\* constructed and committed, no response is sent before the commit
\* attempt, a 200 is sent only when the document of this request is in the
\* registry, and the link of the 200 carries that document's shortId.
C16_WriteCommitRespond ==
    \A r \in Requests :
        /\ up[r].newFile # {} =>
              /\ up[r].stored >= 1
              /\ BlobId(r, 1) \in StoredIds
              /\ \A doc \in up[r].newFile : BlobOfUrl(doc.fileUrl) = BlobId(r, 1)
        /\ up[r].pc \in {"multer", "findOne", "destroy", "save", "saved"} =>
              up[r].status = 0
        /\ up[r].status = 200 =>
              /\ up[r].newFile # {}
              /\ up[r].newFile \subseteq registry
              /\ \A doc \in up[r].newFile : up[r].link = doc.shortId

\* An upload was answered 200 while the save of another upload of the same
\* shortId has been rejected and is not yet answered.
C16_Witness ==
    \E r1 \in Requests, r2 \in Requests :
        /\ up[r1].status = 200
        /\ up[r1].link # <<>>
        /\ up[r2].pc = "saved"
        /\ up[r2].saveError = "E11000"
        /\ up[r2].shortId = up[r1].link

\* C17: in the proxy-stream handler, once the body stream has failed after
\* the headers were sent, the response has been ended (the request is
\* finished and is not left open).
C17_StreamErrorEndsResponse ==
    (/\ revision = "part_002"
     /\ get.upstream = "ok"
     /\ get.headersSent
     /\ get.fault)
        => get.pc = "done"

\* C18: an upload with a file and without customName never runs the findOne
\* pre-check, gets one generated identifier that it keeps from then on, and
\* attempts one commit; when the unique index rejects it, the document that
\* holds the identifier stays in the registry unchanged, the upload's own
\* document is not added and the upload fails (500).
C18_GeneratedIdNoRetry ==
    /\ [](\A r \in Requests :
            (up[r].files # <<>> /\ ~Truthy(up[r].body)) =>
                /\ up[r].pc \notin {"findOne", "destroy"}
                /\ ~up[r].existed
                /\ up[r].newFile # {} => up[r].shortId \in GeneratedIds
                /\ up[r].saveError = "E11000" =>
                      /\ up[r].newFile \cap registry = {}
                      /\ \E doc \in registry : doc.shortId = up[r].shortId
                      /\ up[r].pc = "done" => up[r].status = 500)
    /\ [][\A r \in Requests :
            /\ up[r].newFile # {} =>
                  /\ up'[r].newFile = up[r].newFile
                  /\ up'[r].shortId = up[r].shortId
            /\ up[r].pc \in {"saved", "done"} => up'[r].pc \in {"saved", "done"}
            /\ up[r].saveError = "E11000" => registry' = registry]_vars

\* An upload without customName drew the identifier that an upload with an
\* 8-character custom name holds; its save was rejected and it was
\* answered 500.
C18_Witness ==
    \E r1 \in Requests, r2 \in Requests :
        /\ up[r1].files # <<>>
        /\ ~Truthy(up[r1].body)
        /\ up[r1].saveError = "E11000"
        /\ up[r1].pc = "done"
        /\ up[r1].status = 500
        /\ Truthy(up[r2].body)
        /\ up[r2].status = 200
        /\ up[r2].link = up[r1].shortId
        /\ up[r2].newFile \subseteq registry

\* C19: every step of a GET /file/:shortId request, whatever its outcome,
\* leaves the documents of the registry and the blobs of the store as they
\* were.
C19_GetIsPureRead ==
    [][get' # get => (registry' = registry /\ store' = store)]_vars

\* A GET of an existing document was answered 504 while the registry and
\* the blob store are not empty.
C19_Witness ==
    /\ get.pc = "done"
    /\ get.status = 504
    /\ get.file # {}
    /\ get.file \subseteq registry
    /\ \A d \in get.file : BlobOfUrl(d.fileUrl) \in StoredIds

\* C20: the document of an upload that was answered with a status other
\* than 200 is not in the registry, and every document of the registry is
\* the document of an upload that was answered 200, or whose save has
\* succeeded and whose only remaining step is the 200 response.
C20_OnlySuccessAddsRecord ==
    /\ \A r \in Requests :
          (up[r].pc = "done" /\ up[r].status # 200) => up[r].newFile \cap registry = {}
    /\ \A doc \in registry :
          \E r \in Requests :
              /\ doc \in up[r].newFile
              /\ \/ up[r].status = 200
                 \/ up[r].pc = "saved" /\ up[r].saveError = "" /\ up[r].status = 0

\* One upload was answered 200 and its document is the whole registry;
\* another one got as far as save, which failed, and was answered 500.
C20_Witness ==
    \E r1 \in Requests, r2 \in Requests :
        /\ up[r1].status = 200
        /\ registry = up[r1].newFile
        /\ up[r2].pc = "done"
        /\ up[r2].status = 500
        /\ up[r2].saveError = "fault"
        /\ up[r2].newFile # {}

\* C21: when two uploads that carried a file and different customName
\* strings with the same non-empty sanitized form have both completed
\* without a fault of the database or the blob store, the registry holds at
\* most one document for the sanitized identifier, at most one of the two
\* was answered 200 (the one whose document is in the registry) and the
\* other one was answered 409 name-taken.
C21_ConflictOnSanitizedName ==
    \A r1 \in Requests, r2 \in Requests :
        (/\ r1 # r2
         /\ up[r1].files # <<>> /\ up[r2].files # <<>>
         /\ Truthy(up[r1].body) /\ Truthy(up[r2].body)
         /\ up[r1].body.customName # up[r2].body.customName
         /\ Sanitize(up[r1].body.customName) = Sanitize(up[r2].body.customName)
         /\ Sanitize(up[r1].body.customName) # <<>>
         /\ up[r1].pc = "done" /\ ~up[r1].fault
         /\ up[r2].pc = "done" /\ ~up[r2].fault)
            => /\ Cardinality(FindOne(registry, Sanitize(up[r1].body.customName))) <= 1
               /\ \A r \in {r1, r2} :
                     /\ up[r].status \in {200, 409}
                     /\ up[r].status = 200 <=> up[r].newFile \cap registry # {}
                     /\ up[r].status = 409 => up[r].error = NameTakenMsg
               /\ ~(up[r1].status = 200 /\ up[r2].status = 200)

\* C22: every POST /upload whose handler has started is eventually
\* answered; an answered request has received exactly one response, with a
\* status in {200, 400, 409, 500}; a request not yet answered has received
\* none; and after its response nothing more is sent or done for it.  This
\* holds on every path, the faults of findOne, save and destroy included.
C22_ExactlyOneResponse ==
    /\ [](\A r \in Requests :
            /\ up[r].responses <= 1
            /\ up[r].pc = "done" =>
                  /\ up[r].responses = 1
                  /\ up[r].status \in {200, 400, 409, 500}
            /\ up[r].pc # "done" =>
                  /\ up[r].responses = 0
                  /\ up[r].status = 0)
    /\ [][\A r \in Requests : up[r].responses >= 1 => up'[r] = up[r]]_vars
    /\ \A r \in Requests :
          (up[r].pc \in {"findOne", "destroy", "save", "saved"})
              ~> (up[r].pc = "done" /\ up[r].responses = 1)

\* An upload found its name taken, its cleanup delete failed and it was
\* answered once, with 500; the upload that holds the name was answered
\* once, with 200.
C22_Witness ==
    \E r1 \in Requests, r2 \in Requests :
        /\ up[r1].pc = "done"
        /\ up[r1].existed
        /\ up[r1].fault
        /\ up[r1].status = 500
        /\ up[r1].responses = 1
        /\ up[r2].status = 200
        /\ up[r2].responses = 1
        /\ up[r2].link = up[r1].shortId

====
